---- MODULE Spec2Model ----
(***************************************************************************)
(* Zephyr chat client: the turn orchestrator of index.tsx (sendMessage,    *)
(* its await points, the streaming merge) and the chat-history handlers.   *)
(*                                                                         *)
(* A text is a sequence of tokens.  A token is a run of characters that    *)
(* the code's regular expressions treat as a unit: a word or phrase, a     *)
(* blank, or the command "/image".  Word boundaries (\b) are decided from  *)
(* the first and last character class of the neighbouring tokens.          *)
(***************************************************************************)
EXTENDS Integers, Sequences, FiniteSets, TLC

\* ------------------------------------------------------------------ bounds
MaxTurns == 2      \* sendMessage invocations explored
MaxChunks == 2     \* chunks delivered by one response stream
MaxClock == 1      \* Date.now() ranges over 0..MaxClock
MaxLen == 3        \* tokens in a text of the single-turn specification

\* ------------------------------------------------------------------ texts
SP == " "

\* String.prototype.toLowerCase, per token
LowerTok(tok) ==
    CASE tok = "/IMAGE" -> "/image"
      [] tok = "TIME"   -> "time"
      [] tok = "Cat"    -> "cat"
      [] OTHER          -> tok

toLowerCase(s) == [i \in 1..Len(s) |-> LowerTok(s[i])]

\* first / last character of the token is a word character (\w)
StartsWord(tok) == tok \notin {SP, "/image", "/IMAGE", "?"}
EndsWord(tok) == tok \notin {SP, "?"}

RECURSIVE TrimLeft(_)
TrimLeft(s) == IF s # <<>> /\ Head(s) = SP THEN TrimLeft(Tail(s)) ELSE s

RECURSIVE TrimRight(_)
TrimRight(s) ==
    IF s # <<>> /\ s[Len(s)] = SP THEN TrimRight(SubSeq(s, 1, Len(s) - 1)) ELSE s

\* String.prototype.trim
trim(s) == TrimRight(TrimLeft(s))

\* /\b(w1|w2|...)\b/.test(s)
TestWords(words, s) ==
    \E i \in 1..Len(s) :
        /\ s[i] \in words
        /\ (i = 1 \/ ~EndsWord(s[i - 1]))
        /\ (i = Len(s) \/ ~StartsWord(s[i + 1]))

\* s.includes(tok)
includes(s, tok) == \E i \in 1..Len(s) : s[i] = tok

\* lowerCaseInput.startsWith("/image ")
StartsWithImageCmd(lower) == Len(lower) >= 2 /\ lower[1] = "/image" /\ lower[2] = SP

\* messageText.trim().substring(7): the text after the seven characters "/image "
substring7(s) == SubSeq(s, 3, Len(s))

TimeWords == {"time", "date"}
CreatorWords == {"developed you", "your developer", "your creator", "created you", "made you"}
MapWords == {"near", "nearby", "location", "place", "restaurant", "cafe", "hotel",
             "park", "address", "direction", "where is", "at"}

IsTimeQuery(lower) == TestWords(TimeWords, lower)
\* mutant of IsCreatorQuery: the organisation's name does not exclude the rule
IsCreatorQuery_NoExclusion(lower) == TestWords(CreatorWords, lower)

IsCreatorQuery(lower) == TestWords(CreatorWords, lower) /\ ~includes(lower, "quantum coders")
\* mutant of IsMapQuery: the pattern is tried without its word boundaries
IsMapQuery_NoBoundary(lower) == \E i \in 1..Len(lower) : lower[i] \in MapWords

IsMapQuery(lower) == TestWords(MapWords, lower)

\* ------------------------------------------------------------ collaborators
NoAgent == [name |-> "", role |-> "", description |-> "", instructions |-> ""]
CoderAgent == [name |-> "Coder Agent", role |-> "coder", description |-> "writes code",
               instructions |-> "You are a coding agent."]

\* agentManager.selectAgent: keyword classifier, pure and total
selectAgent(messageText) ==
    IF includes(toLowerCase(messageText), "code") THEN CoderAgent ELSE NoAgent

\* agentManager.generateImageUrl: pure map from prompt to URL
generateImageUrl(prompt) == <<"https://image/">> \o prompt

\* ------------------------------------------------------------------- data
USER == "user"
MODEL == "model"

\* an absent attachment (undefined / null) and the attachments a user can pick
NoImage == [data |-> "", mimeType |-> "", url |-> ""]

NoId == [t |-> -1, k |-> ""]
UserId(ms) == [t |-> ms, k |-> "-user"]
ModelId(ms) == [t |-> ms, k |-> "-model"]

\* types.ts Message; an absent optional field is "", <<>> or FALSE.
\* turn is not a field of the program: it records which sendMessage call
\* appended the message, so that properties can name "the turn's placeholder".
Message(id, role, text, image, type, agentName, isLoading, turn) ==
    [id |-> id, role |-> role, text |-> text, image |-> image, type |-> type,
     agentName |-> agentName, isLoading |-> isLoading, sources |-> <<>>, turn |-> turn]

Img1 == [data |-> "d1", mimeType |-> "image/jpeg", url |-> "data:1"]
Call(messageText, imageAttachment) ==
    [messageText |-> messageText, imageAttachment |-> imageAttachment]

\* the (text, attachment) pairs submitted in the concurrent specification
Calls ==
    { Call(<<>>, NoImage),
      Call(<<SP>>, NoImage),
      Call(<<SP>>, Img1),
      Call(<<SP, "/image", SP, "Cat", SP>>, NoImage),
      Call(<<"TIME", SP, "made you">>, NoImage),
      Call(<<"who", SP, "made you">>, NoImage),
      Call(<<"cafe", SP, "near">>, NoImage),
      Call(<<"code", SP, "updates">>, NoImage) }

\* grounding entries: c.web / c.maps, each present or not, with uri and title
Absent == [present |-> FALSE, uri |-> "", title |-> ""]
Obj(uri, title) == [present |-> TRUE, uri |-> uri, title |-> title]
Web(uri, title) == [web |-> Obj(uri, title), maps |-> Absent]
Maps(uri, title) == [web |-> Absent, maps |-> Obj(uri, title)]
Neither == [web |-> Absent, maps |-> Absent]

\* chunk.candidates?.[0]?.groundingMetadata?.groundingChunks; NoGrounding: undefined
NoGrounding == [defined |-> FALSE, list |-> <<>>]
Grounding(list) == [defined |-> TRUE, list |-> list]

\* the chunks a response stream delivers in the concurrent specification
Chunks ==
    { [text |-> <<"a">>, grounding |-> NoGrounding],
      [text |-> <<>>,    grounding |-> Grounding(<<Web("u1", "t1")>>)] }

\* the chunks a response stream delivers in the single-stream specification
RichChunks ==
    { [text |-> <<"a">>, grounding |-> NoGrounding],
      [text |-> <<"b">>, grounding |-> Grounding(<<Maps("u2", "t2"), Web("u1", "t1b")>>)],
      [text |-> <<>>,    grounding |-> NoGrounding],
      [text |-> <<>>,    grounding |-> Grounding(<<>>)],
      [text |-> <<>>,    grounding |-> Grounding(<<Web("u1", "t1")>>)],
      [text |-> <<>>,    grounding |-> Grounding(<<Web("u3", "t3"), Web("u3", "t3")>>)],
      [text |-> <<>>,    grounding |-> Grounding(<<Web("", "t4"), Neither, Maps("u5", "")>>)],
      [text |-> <<>>,    grounding |-> Grounding(<<Maps("", "t4"), Web("u6", "t6"), Neither>>)] }

\* the calls of the single-stream specification
StreamCalls == { Call(<<"hi">>, NoImage), Call(<<"cafe", SP, "near">>, Img1) }

\* the texts of the single-turn specification: every token sequence up to MaxLen
Alphabet == {SP, "/image", "/IMAGE", "Cat", "TIME", "made you", "quantum coders", "near", "x"}
AllTexts == UNION {[1..n -> Alphabet] : n \in 0..MaxLen}

\* error.message of a rejected request or a broken stream
Errors == {"503", "fetch failed"}

\* results of navigator.geolocation.getCurrentPosition
GeoOutcomes == {"ok", "denied", "timeout", "unsupported"}
NoToolConfig == [set |-> FALSE, latitude |-> 0, longitude |-> 0]
Position == [latitude |-> 12, longitude |-> 77]

NoRequest == [issued |-> FALSE, contents |-> <<>>, systemInstruction |-> <<>>,
              tools |-> {}, toolConfig |-> NoToolConfig]

\* ------------------------------------------------------------------ state
VARIABLES
    messages,      \* useState<Message[]>: the current transcript
    input,         \* useState: the input field
    attachment,    \* useState: the attached image or NoImage
    chatHistory,   \* useState<Message[][]>: archived transcripts
    apiKey,        \* process.env.API_KEY is set
    now,           \* the clock read by Date.now()
    turns,         \* one record per sendMessage invocation: its locals and position
    localStorage,  \* the item 'zephyrChatHistory' of window.localStorage
    mounted,       \* the effects of the first render have run
    loading,       \* part_000 useState(false): a submission is being answered
    processingAgent \* part_000 useState: the persona shown while loading, "" for null

vars == <<messages, input, attachment, chatHistory, apiKey, now, turns, localStorage, mounted,
          loading, processingAgent>>

Turn == 1..MaxTurns

\* a sendMessage invocation that has not happened yet.  classifierCalls, geoReads,
\* requests and fragments are not locals of the program: they count the calls the turn
\* made and log the non-empty text fragments its stream delivered, in arrival order.
IdleTurn ==
    [pc |-> "idle", messageText |-> <<>>, imageAttachment |-> NoImage,
     placeholderId |-> NoId, messages |-> <<>>, selectedAgent |-> NoAgent,
     fullText |-> <<>>, accumulatedSources |-> <<>>, request |-> NoRequest,
     position |-> "", nChunks |-> 0, classifierCalls |-> 0, geoReads |-> 0, requests |-> 0,
     fragments |-> <<>>]

\* localStorage.getItem returns null for a missing item, else the stored string
NoItem == [present |-> FALSE, json |-> <<>>]

\* JSON.stringify / JSON.parse of a Message[][]: every field of a Message is a string,
\* a boolean or an array of {title, uri}; a field that is undefined is left out of the
\* text and is undefined again after parsing
JSONstringify(value) == [present |-> TRUE, json |-> value]
JSONparse(item) == item.json

\* the page after its first render and the effects of lines 429-430, nothing persisted
Init ==
    /\ localStorage = JSONstringify(<<>>)
    /\ mounted = TRUE
    /\ loading = FALSE
    /\ processingAgent = ""
    /\ messages = <<>>
    /\ input = <<>>
    /\ attachment = NoImage
    /\ chatHistory = <<>>
    /\ apiKey \in BOOLEAN
    /\ now = 0
    /\ turns = [t \in Turn |-> IdleTurn]

\* ---------------------------------------------------------------- helpers
\* mutant of isBusy: the in-flight check is dropped
isBusy_Never(msgs) == FALSE

\* messages.some(m => m.isLoading)
isBusy(msgs) == \E i \in 1..Len(msgs) : msgs[i].isLoading

\* mutant of SetText: isLoading is not reset
SetText_KeepLoading(prev, id, text) ==
    [i \in 1..Len(prev) |->
        IF prev[i].id = id THEN [prev[i] EXCEPT !.text = text] ELSE prev[i]]

\* prev.map(m => m.id === id ? { ...m, text, isLoading: false } : m)
SetText(prev, id, text) ==
    [i \in 1..Len(prev) |->
        IF prev[i].id = id THEN [prev[i] EXCEPT !.text = text, !.isLoading = FALSE]
        ELSE prev[i]]

\* prev.map(msg => msg.id === id ? { ...msg, sources } : msg)
SetSources(prev, id, sources) ==
    [i \in 1..Len(prev) |->
        IF prev[i].id = id THEN [prev[i] EXCEPT !.sources = sources] ELSE prev[i]]

\* groundingChunks.map(c => c.web ? c.web : c.maps ? c.maps : null)
PickSource(c) == IF c.web.present THEN c.web ELSE IF c.maps.present THEN c.maps ELSE Absent

\* mutant of ValidSource: the title is not tested
ValidSource_UriOnly(s) == s.present /\ s.uri # ""

\* .filter(s => !!(s?.uri && s.title))
ValidSource(s) == s.present /\ s.uri # "" /\ s.title # ""

ChunkSources(groundingChunks) ==
    LET picked == [i \in 1..Len(groundingChunks) |-> PickSource(groundingChunks[i])]
        kept == SelectSeq(picked, ValidSource)
    IN  [i \in 1..Len(kept) |-> [title |-> kept[i].title, uri |-> kept[i].uri]]

\* [...accumulatedSources, ...sources.filter(s => !accumulatedSources.some(e => e.uri === s.uri))]
MergeSources(accumulatedSources, sources) ==
    LET isNew(s) == ~\E j \in 1..Len(accumulatedSources) : accumulatedSources[j].uri = s.uri
    IN  accumulatedSources \o SelectSeq(sources, isNew)

\* messages.filter(m => !m.isLoading).map(msg => ({ role, parts: [{ text }] }))
TextPart(text) == [kind |-> "text", text |-> text, mimeType |-> "", data |-> ""]
InlinePart(img) == [kind |-> "inlineData", text |-> <<>>, mimeType |-> img.mimeType, data |-> img.data]

historyForAPI(msgs) ==
    LET kept == SelectSeq(msgs, LAMBDA m : ~m.isLoading)
    IN  [i \in 1..Len(kept) |-> [role |-> kept[i].role, parts |-> <<TextPart(kept[i].text)>>]]

currentParts(messageText, imageAttachment) ==
    (IF trim(messageText) # <<>> THEN <<TextPart(trim(messageText))>> ELSE <<>>)
    \o (IF imageAttachment # NoImage THEN <<InlinePart(imageAttachment)>> ELSE <<>>)

finalSystemInstruction(agent) ==
    IF agent # NoAgent
    THEN <<agent.instructions, "CURRENT AGENT MODE: ", agent.name, "ROLE: ", agent.role,
           "DESCRIPTION: ", agent.description>>
    ELSE <<"You are Zephyr, a helpful AI assistant created by Quantum Coders. Responses should be formatted in Markdown.">>

\* the argument of ai.models.generateContentStream
BuildRequest(me, agent, toolConfig) ==
    LET lower == toLowerCase(trim(me.messageText))
    IN  [issued |-> TRUE,
         contents |-> historyForAPI(me.messages)
                      \o <<[role |-> USER, parts |-> currentParts(me.messageText, me.imageAttachment)]>>,
         systemInstruction |-> finalSystemInstruction(agent),
         tools |-> {"googleSearch"} \cup (IF IsMapQuery(lower) THEN {"googleMaps"} ELSE {}),
         toolConfig |-> toolConfig]

\* the sendMessage invocations are numbered in the order they happen
NextTurn(t) == turns[t].pc = "idle" /\ \A u \in Turn : u < t => turns[u].pc # "idle"

\* ------------------------------------------------------- sendMessage: guard
\* mutant of Rejects: the text is not trimmed before the emptiness test
Rejects_NoTrim(messageText, imageAttachment, msgs) ==
    (messageText = <<>> /\ imageAttachment = NoImage) \/ isBusy(msgs)

\* (!messageText.trim() && !imageAttachment) || isBusy
Rejects(messageText, imageAttachment, msgs) ==
    (trim(messageText) = <<>> /\ imageAttachment = NoImage) \/ isBusy(msgs)

\* mutant of IsImageCommand: the command is not recognised
IsImageCommand_Never(messageText) == FALSE

\* lowerCaseInput.startsWith("/image ") with a non-empty prompt behind it
IsImageCommand(messageText) ==
    /\ StartsWithImageCmd(toLowerCase(trim(messageText)))
    /\ substring7(trim(messageText)) # <<>>

\* mutant of userMessage: the message is stored with the role of the model
userMessage_AsModel(me, t) ==
    Message(UserId(me.placeholderId.t), MODEL, trim(me.messageText), me.imageAttachment.url,
            "", "", FALSE, t)

userMessage(me, t) ==
    Message(UserId(me.placeholderId.t), USER, trim(me.messageText), me.imageAttachment.url,
            "", "", FALSE, t)

\* mutant of imageMessage: the prompt is cut one token early and keeps the blank
imageMessage_Substring6(me, t) ==
    Message(me.placeholderId, MODEL,
            generateImageUrl(SubSeq(trim(me.messageText), 2, Len(trim(me.messageText)))), "",
            "image", "Creative Agent", FALSE, t)

imageMessage(me, t) ==
    Message(me.placeholderId, MODEL, generateImageUrl(substring7(trim(me.messageText))), "",
            "image", "Creative Agent", FALSE, t)

\* mutant of placeholder: the tag is always the default persona
placeholder_DefaultTag(me, agentName, t) ==
    Message(me.placeholderId, MODEL, <<>>, "", "", "Zephyr", TRUE, t)

placeholder(me, agentName, t) ==
    Message(me.placeholderId, MODEL, <<>>, "", "", agentName, TRUE, t)

\* mutant of LocalOverride: the attribution rule is tried before the time rule
LocalOverride_CreatorFirst(messageText, imageAttachment) ==
    LET lower == toLowerCase(trim(messageText))
    IN  IF imageAttachment # NoImage THEN ""
        ELSE IF IsCreatorQuery(lower) THEN "creator"
        ELSE IF IsTimeQuery(lower) THEN "time"
        ELSE ""

\* the hardcoded client responses; "" when none applies
LocalOverride(messageText, imageAttachment) ==
    LET lower == toLowerCase(trim(messageText))
    IN  IF imageAttachment # NoImage THEN ""
        ELSE IF IsTimeQuery(lower) THEN "time"
        ELSE IF IsCreatorQuery(lower) THEN "creator"
        ELSE ""

TimeAnswer(clock) == <<"The current date and time is: ", ToString(clock)>>
CreatorAnswer == <<"I was created by **Mohammad Rayyan Ali**.">>
\* mutant of KeyMissing: the message is empty
KeyMissing_Empty == <<>>

KeyMissing == <<"Error: API Key missing.">>

ConnectionError(error) == <<"Connection Error: ", error>>

\* ------------------------------------------------------------------ actions
\* Date.now() / new Date(): the clock never runs backwards
ClockReads == {d \in now..(now + 1) : d <= MaxClock}

\* The form holds (messageText, imageAttachment) and is submitted:
\* sendMessage(input, attachment) from its entry to its first await or its return.
\* date is what Date.now() returns.
sendMessage(t, messageText, imageAttachment, date) ==
    /\ NextTurn(t)
    /\ LET me == [IdleTurn EXCEPT !.messageText = messageText,
                                  !.imageAttachment = imageAttachment,
                                  !.messages = messages]
           ids == [me EXCEPT !.placeholderId = ModelId(date)]
       IN  IF Rejects(messageText, imageAttachment, messages)
           THEN /\ turns' = [turns EXCEPT ![t] = [me EXCEPT !.pc = "rejected"]]
                /\ input' = messageText
                /\ attachment' = imageAttachment
                /\ UNCHANGED <<messages, now>>
           ELSE IF IsImageCommand(messageText)
           THEN /\ messages' = messages \o <<userMessage(ids, t), imageMessage(ids, t)>>
                /\ input' = <<>>
                /\ attachment' = NoImage
                /\ now' = date
                /\ turns' = [turns EXCEPT ![t] = [ids EXCEPT !.pc = "image"]]
           ELSE /\ turns' = [turns EXCEPT ![t] =
                                [ids EXCEPT !.pc = "classify", !.classifierCalls = 1]]
                /\ input' = messageText
                /\ attachment' = imageAttachment
                /\ now' = date
                /\ UNCHANGED messages
    /\ UNCHANGED <<chatHistory, apiKey, localStorage, mounted, loading, processingAgent>>

\* the continuation of `await selectAgent(messageText)`, to the next await or return
\* date is what new Date() returns where the time answer is built.
selectAgentDone(t, date) ==
    /\ turns[t].pc = "classify"
    /\ date = now \/ LocalOverride(turns[t].messageText, turns[t].imageAttachment) = "time"
    /\ LET me == turns[t]
           agent == selectAgent(me.messageText)
           agentName == IF agent # NoAgent THEN agent.name ELSE "Zephyr"
           appended == messages \o <<userMessage(me, t), placeholder(me, agentName, t)>>
           override == LocalOverride(me.messageText, me.imageAttachment)
           sel == [me EXCEPT !.selectedAgent = agent]
       IN  /\ input' = <<>>
           /\ attachment' = NoImage
           /\ IF override = "time"
              THEN /\ messages' = SetText(appended, me.placeholderId, TimeAnswer(date))
                   /\ turns' = [turns EXCEPT ![t] = [sel EXCEPT !.pc = "answered"]]
              ELSE IF override = "creator"
              THEN /\ messages' = SetText(appended, me.placeholderId, CreatorAnswer)
                   /\ turns' = [turns EXCEPT ![t] = [sel EXCEPT !.pc = "answered"]]
              ELSE IF ~apiKey
              THEN /\ messages' = SetText(appended, me.placeholderId, KeyMissing)
                   /\ turns' = [turns EXCEPT ![t] = [sel EXCEPT !.pc = "nokey"]]
              ELSE IF IsMapQuery(toLowerCase(trim(me.messageText)))
              THEN /\ messages' = appended
                   /\ turns' = [turns EXCEPT ![t] = [sel EXCEPT !.pc = "geo", !.geoReads = 1]]
              ELSE /\ messages' = appended
                   /\ turns' = [turns EXCEPT ![t] =
                                   [sel EXCEPT !.pc = "stream", !.requests = 1,
                                               !.request = BuildRequest(me, agent, NoToolConfig)]]
           /\ now' = date
    /\ UNCHANGED <<chatHistory, apiKey, localStorage, mounted, loading, processingAgent>>

\* mutant of GeoToolConfig: the bias is attached whatever getCurrentPosition did
GeoToolConfig_Always(outcome) ==
    [set |-> TRUE, latitude |-> Position.latitude, longitude |-> Position.longitude]

\* try { pos = await getCurrentPosition(); toolConfig = {...} } catch (e) { warn }
GeoToolConfig(outcome) ==
    IF outcome = "ok"
    THEN [set |-> TRUE, latitude |-> Position.latitude, longitude |-> Position.longitude]
    ELSE NoToolConfig

\* the continuation of `await getCurrentPosition()`: resolved or rejected
getCurrentPositionDone(t, outcome) ==
    /\ turns[t].pc = "geo"
    /\ LET me == turns[t]
           toolConfig == GeoToolConfig(outcome)
       IN  turns' = [turns EXCEPT ![t] =
                        [me EXCEPT !.pc = "stream", !.requests = me.requests + 1,
                                   !.position = outcome,
                                   !.request = BuildRequest(me, me.selectedAgent, toolConfig)]]
    /\ UNCHANGED <<messages, input, attachment, chatHistory, apiKey, now, localStorage, mounted, loading, processingAgent>>

\* mutant of Accumulate: the fragment replaces what was accumulated
Accumulate_Replace(fullText, text) == text

\* fullText += text
Accumulate(fullText, text) == fullText \o text

\* one iteration of `for await (const chunk of responseStream)`
streamChunk(t, chunk) ==
    /\ turns[t].pc = "stream"
    /\ turns[t].nChunks < MaxChunks
    /\ LET me == turns[t]
           fullText == IF chunk.text # <<>> THEN Accumulate(me.fullText, chunk.text) ELSE me.fullText
           afterText == IF chunk.text # <<>>
                        THEN SetText(messages, me.placeholderId, fullText)
                        ELSE messages
           sources == IF chunk.grounding.defined
                      THEN ChunkSources(chunk.grounding.list) ELSE <<>>
           accumulatedSources == IF Len(sources) > 0
                                 THEN MergeSources(me.accumulatedSources, sources)
                                 ELSE me.accumulatedSources
       IN  /\ messages' = IF Len(sources) > 0
                          THEN SetSources(afterText, me.placeholderId, accumulatedSources)
                          ELSE afterText
           /\ turns' = [turns EXCEPT ![t] =
                           [me EXCEPT !.fullText = fullText,
                                      !.accumulatedSources = accumulatedSources,
                                      !.nChunks = me.nChunks + 1,
                                      !.fragments = IF chunk.text # <<>>
                                                    THEN Append(me.fragments, chunk.text)
                                                    ELSE me.fragments]]
    /\ UNCHANGED <<input, attachment, chatHistory, apiKey, now, localStorage, mounted, loading, processingAgent>>

\* the stream ends: the loop and sendMessage return
streamEnd(t) ==
    /\ turns[t].pc = "stream"
    /\ turns' = [turns EXCEPT ![t].pc = "ended"]
    /\ UNCHANGED <<messages, input, attachment, chatHistory, apiKey, now, localStorage, mounted, loading, processingAgent>>

\* mutant of ErrorText: the error is appended to what was streamed
ErrorText_Append(fullText, error) == fullText \o ConnectionError(error)

\* `Connection Error: ${error.message || error}` replaces the text
ErrorText(fullText, error) == ConnectionError(error)

\* the request is rejected or the stream throws: the catch block
streamError(t, error) ==
    /\ turns[t].pc = "stream"
    /\ messages' = SetText(messages, turns[t].placeholderId, ErrorText(turns[t].fullText, error))
    /\ turns' = [turns EXCEPT ![t].pc = "failed"]
    /\ UNCHANGED <<input, attachment, chatHistory, apiKey, now, localStorage, mounted, loading, processingAgent>>

\* ------------------------------------------------------------ chat history
\* mutant of archiveCurrentChat: the transcript is put behind the earlier entries
archiveCurrentChat_Append(prev) == IF Len(messages) > 0 THEN prev \o <<messages>> ELSE prev

\* if (messages.length > 0) setChatHistory(prev => [messages, ...prev])
archiveCurrentChat(prev) == IF Len(messages) > 0 THEN <<messages>> \o prev ELSE prev

\* prev.filter((_, i) => i !== index), index counted from 0
RemoveAt(prev, index) ==
    [i \in 1..(Len(prev) - (IF index < Len(prev) THEN 1 ELSE 0)) |->
        IF i <= index THEN prev[i] ELSE prev[i + 1]]

\* the effect of line 430, run after a render in which chatHistory has changed
SaveEffect(history) == JSONstringify(history)

\* the effect of line 429: the setChatHistory calls it queues
LoadEffect(item) == IF item.present THEN <<JSONparse(item)>> ELSE <<>>

\* The effects of the first render.  strict: React.StrictMode (line 733) in a
\* development build runs the two effects a second time before the queued state
\* updates are applied; a production build runs them once.
mount(strict) ==
    /\ ~mounted
    /\ LET first == LoadEffect(localStorage)
           saved == SaveEffect(chatHistory)
           second == IF strict THEN LoadEffect(saved) ELSE <<>>
           queued == first \o second
           history == IF queued = <<>> THEN chatHistory ELSE queued[Len(queued)]
       IN  /\ chatHistory' = history
           /\ localStorage' = SaveEffect(history)
    /\ mounted' = TRUE
    /\ UNCHANGED <<messages, input, attachment, apiKey, now, turns, loading, processingAgent>>

startNewChat ==
    /\ chatHistory' = archiveCurrentChat(chatHistory)
    /\ localStorage' = SaveEffect(chatHistory')
    /\ messages' = <<>>
    /\ attachment' = NoImage
    /\ input' = <<>>
    /\ UNCHANGED <<apiKey, now, turns, mounted, loading, processingAgent>>

\* index: the 0-based position of the clicked entry of the rendered history
loadChat(index) ==
    /\ index \in 0..(Len(chatHistory) - 1)
    /\ messages' = chatHistory[index + 1]
    /\ chatHistory' = RemoveAt(archiveCurrentChat(chatHistory), index)
    /\ localStorage' = SaveEffect(chatHistory')
    /\ UNCHANGED <<input, attachment, apiKey, now, turns, mounted, loading, processingAgent>>

deleteChat(index) ==
    /\ index \in 0..(Len(chatHistory) - 1)
    /\ chatHistory' = RemoveAt(chatHistory, index)
    /\ localStorage' = SaveEffect(chatHistory')
    /\ UNCHANGED <<messages, input, attachment, apiKey, now, turns, mounted, loading, processingAgent>>

\* ------------------------------------------------------------ specification
Next ==
    \/ \E t \in Turn, c \in Calls, date \in ClockReads :
          sendMessage(t, c.messageText, c.imageAttachment, date)
    \/ \E t \in Turn, date \in ClockReads : selectAgentDone(t, date)
    \/ \E t \in Turn, outcome \in GeoOutcomes : getCurrentPositionDone(t, outcome)
    \/ \E t \in Turn, chunk \in Chunks : streamChunk(t, chunk)
    \/ \E t \in Turn : streamEnd(t)
    \/ \E t \in Turn, error \in Errors : streamError(t, error)

Spec == Init /\ [][Next]_vars

\* one turn, every text up to MaxLen tokens, a stream that carries no chunk
NextText ==
    \/ /\ NextTurn(1)
       /\ \E messageText \in AllTexts, imageAttachment \in {NoImage, Img1}, date \in ClockReads :
             sendMessage(1, messageText, imageAttachment, date)
    \/ \E date \in ClockReads : selectAgentDone(1, date)
    \/ \E outcome \in GeoOutcomes : getCurrentPositionDone(1, outcome)
    \/ streamEnd(1)
    \/ \E error \in Errors : streamError(1, error)

\* the concurrent specification when selectAgent resolves at once: the continuation of
\* its await is a microtask, so no event (submit, position, chunk, end of stream,
\* error) is handled before it has run
NoPendingClassifier == \A u \in Turn : turns[u].pc # "classify"

NextSync ==
    \/ /\ NoPendingClassifier
       /\ \E t \in Turn, c \in Calls, date \in ClockReads :
             sendMessage(t, c.messageText, c.imageAttachment, date)
    \/ \E t \in Turn, date \in ClockReads : selectAgentDone(t, date)
    \/ /\ NoPendingClassifier
       /\ \E t \in Turn, outcome \in GeoOutcomes : getCurrentPositionDone(t, outcome)
    \/ /\ NoPendingClassifier
       /\ \E t \in Turn, chunk \in Chunks : streamChunk(t, chunk)
    \/ /\ NoPendingClassifier
       /\ \E t \in Turn : streamEnd(t)
    \/ /\ NoPendingClassifier
       /\ \E t \in Turn, error \in Errors : streamError(t, error)

SpecSync == Init /\ [][NextSync]_vars

SpecText == Init /\ [][NextText]_vars

\* one turn, every sequence of up to MaxChunks chunks
NextStream ==
    \/ \E c \in StreamCalls, date \in ClockReads :
          sendMessage(1, c.messageText, c.imageAttachment, date)
    \/ \E date \in ClockReads : selectAgentDone(1, date)
    \/ \E outcome \in GeoOutcomes : getCurrentPositionDone(1, outcome)
    \/ \E chunk \in RichChunks : streamChunk(1, chunk)
    \/ streamEnd(1)
    \/ \E error \in Errors : streamError(1, error)

SpecStream == Init /\ [][NextStream]_vars

\* a transcript archived by an earlier session: one finished exchange
OldChat ==
    << Message(UserId(-1), USER, <<"hi">>, "", "", "", FALSE, 0),
       [Message(ModelId(-1), MODEL, <<"a">>, "", "", "Zephyr", FALSE, 0)
           EXCEPT !.sources = <<[title |-> "t1", uri |-> "u1"]>>] >>

\* what localStorage holds when the page is opened
PersistedItems == {NoItem, JSONstringify(<<>>), JSONstringify(<<OldChat>>)}

\* the page before the effects of its first render
InitStartup ==
    /\ localStorage \in PersistedItems
    /\ mounted = FALSE
    /\ loading = FALSE
    /\ processingAgent = ""
    /\ messages = <<>>
    /\ input = <<>>
    /\ attachment = NoImage
    /\ chatHistory = <<>>
    /\ apiKey = TRUE
    /\ now = 0
    /\ turns = [t \in Turn |-> IdleTurn]

\* the calls, chunks and errors of the chat-history specification
ChatCalls == { Call(<<"/image", SP, "Cat">>, NoImage), Call(<<"hi">>, NoImage) }
ChatChunks == { [text |-> <<"a">>, grounding |-> NoGrounding] }
ChatErrors == {"503"}

\* no sendMessage call is between its first await and its return
NoTurnInFlight == \A u \in Turn : turns[u].pc \notin {"classify", "geo", "stream"}

\* startup, the turns and the chat-history handlers.  The turns follow one another
\* (overlapping turns are the subject of Spec) and the t-th call reads the clock at t,
\* so that no two calls share their ids.
NextChats ==
    \/ \E strict \in BOOLEAN : mount(strict)
    \/ /\ mounted
       /\ NoTurnInFlight
       /\ \E t \in Turn, c \in ChatCalls : sendMessage(t, c.messageText, c.imageAttachment, t)
    \/ \E t \in Turn : selectAgentDone(t, now)
    \/ \E t \in Turn, chunk \in ChatChunks : streamChunk(t, chunk)
    \/ \E t \in Turn : streamEnd(t)
    \/ \E t \in Turn, error \in ChatErrors : streamError(t, error)
    \/ mounted /\ startNewChat
    \/ mounted /\ \E index \in 0..(Len(chatHistory) - 1) : loadChat(index)
    \/ mounted /\ \E index \in 0..(Len(chatHistory) - 1) : deleteChat(index)

SpecChats == InitStartup /\ [][NextChats]_vars

\* chat switches during a turn: the turns follow one another, the clock may stand
\* still between two calls, selectAgent resolves at once
NextSwitch ==
    \/ /\ NoTurnInFlight
       /\ \E t \in Turn, c \in ChatCalls, date \in ClockReads :
             sendMessage(t, c.messageText, c.imageAttachment, date)
    \/ \E t \in Turn, date \in ClockReads : selectAgentDone(t, date)
    \/ /\ NoPendingClassifier
       /\ \E t \in Turn, chunk \in ChatChunks : streamChunk(t, chunk)
    \/ /\ NoPendingClassifier
       /\ \E t \in Turn : streamEnd(t)
    \/ /\ NoPendingClassifier
       /\ \E t \in Turn, error \in ChatErrors : streamError(t, error)
    \/ NoPendingClassifier /\ startNewChat
    \/ NoPendingClassifier /\ \E index \in 0..(Len(chatHistory) - 1) : loadChat(index)

SpecSwitch == Init /\ [][NextSwitch]_vars

\* ------------------------------------------------ part_000: one response per turn
\* src/unnamed/part_000 is the page that awaits one complete response instead of a
\* stream.  It keeps the busy flag in a state of its own (loading), its messages carry
\* no id and no isLoading, and every reply is written as [...newMessages, reply] from
\* the values sendMessage captured when it was called.  Its definitions carry the
\* prefix P0_; turns[t].messages is the `messages` the invocation closed over.

\* mutant of P0_Rejects: the busy flag is not tested
P0_Rejects_IgnoreLoading(messageText, imageAttachment) ==
    trim(messageText) = <<>> /\ imageAttachment = NoImage

\* (!messageText.trim() && !imageAttachment) || loading
P0_Rejects(messageText, imageAttachment) ==
    (trim(messageText) = <<>> /\ imageAttachment = NoImage) \/ loading

P0_userMessage(me, t) ==
    Message(NoId, USER, trim(me.messageText), me.imageAttachment.url, "", "", FALSE, t)

\* const newMessages = [...messages, userMessage]
P0_newMessages(me, t) == me.messages \o <<P0_userMessage(me, t)>>

\* [...newMessages, { role: Role.MODEL, text, type, agentName, sources }]
P0_Reply(me, t, text, type, agentName, sources) ==
    P0_newMessages(me, t) \o <<[Message(NoId, MODEL, text, "", type, agentName, FALSE, t)
                                   EXCEPT !.sources = sources]>>

OrganisationWords == {"quantum coders"}
OrganisationAnswer == <<"Quantum Coders is a group for a science exhibition. They created me as their project. The members are:\n1. Rayyan\n2. Amit\n3. Yatin">>
P0_ConnectionError == <<"Sorry, I'm having trouble connecting to the AI service. Please try again later.">>

\* the hardcoded client responses of part_000, tried in this order; "" when none applies
P0_LocalOverride(messageText, imageAttachment) ==
    LET lower == toLowerCase(trim(messageText))
    IN  IF imageAttachment # NoImage THEN ""
        ELSE IF TestWords(TimeWords, lower) THEN "time"
        ELSE IF TestWords(CreatorWords, lower) /\ ~includes(lower, "quantum coders") THEN "creator"
        ELSE IF TestWords(OrganisationWords, lower) THEN "organisation"
        ELSE ""

\* messages.map(msg => ({ role, parts: [{ text }, inlineData of msg.image] }))
P0_historyForAPI(msgs) ==
    [i \in 1..Len(msgs) |->
        [role |-> msgs[i].role,
         parts |-> <<TextPart(msgs[i].text)>>
                   \o (IF msgs[i].image # "" THEN <<[kind |-> "inlineData", text |-> <<>>,
                                                     mimeType |-> "image/jpeg",
                                                     data |-> msgs[i].image]>>
                       ELSE <<>>)]]

P0_finalSystemInstruction(agent) ==
    IF agent # NoAgent
    THEN <<agent.instructions, "CURRENT AGENT MODE: ", agent.name, "ROLE: ", agent.role,
           "DESCRIPTION: ", agent.description>>
    ELSE <<"You are Zephyr, a helpful AI assistant created by Quantum Coders. You can provide the current date and time. Your responses should be formatted in Markdown.">>

\* the argument of ai.models.generateContent
P0_BuildRequest(me, agent) ==
    [issued |-> TRUE,
     contents |-> P0_historyForAPI(me.messages)
                  \o <<[role |-> USER, parts |-> currentParts(me.messageText, me.imageAttachment)]>>,
     systemInstruction |-> P0_finalSystemInstruction(agent),
     tools |-> {"googleSearch"},
     toolConfig |-> NoToolConfig]

\* groundingChunks.map(chunk => chunk.web).filter(web => !!(web?.uri && web.title));
\* an empty list is stored as undefined
P0_Sources(grounding) ==
    LET webs == [i \in 1..Len(grounding.list) |-> grounding.list[i].web]
        kept == SelectSeq(webs, ValidSource)
    IN  [i \in 1..Len(kept) |-> [title |-> kept[i].title, uri |-> kept[i].uri]]

\* the calls and the responses of the part_000 specification
P0_Calls ==
    { Call(<<SP>>, NoImage),
      Call(<<"/image", SP, "Cat">>, NoImage),
      Call(<<"TIME">>, NoImage),
      Call(<<"who", SP, "made you">>, NoImage),
      Call(<<"quantum coders">>, NoImage),
      Call(<<"hi">>, NoImage),
      Call(<<"code", SP, "updates">>, Img1) }
P0_Responses ==
    { [text |-> <<"a">>, grounding |-> NoGrounding],
      [text |-> <<"b">>, grounding |-> Grounding(<<Web("u1", "t1"), Maps("u2", "t2"), Web("", "t4")>>)] }

\* sendMessage of part_000 from its entry to its return, to the start of the timer or
\* to `await selectAgent`.  date is what new Date() returns; throws: the constructor
\* of the client refuses an absent key, which is then caught at line 658.
P0_sendMessage(t, messageText, imageAttachment, date, throws) ==
    /\ NextTurn(t)
    /\ LET me == [IdleTurn EXCEPT !.messageText = messageText,
                                  !.imageAttachment = imageAttachment,
                                  !.messages = messages]
           override == P0_LocalOverride(messageText, imageAttachment)
           local == IsImageCommand(messageText) \/ override # ""
       IN  IF P0_Rejects(messageText, imageAttachment)
           THEN /\ date = now /\ ~throws
                /\ turns' = [turns EXCEPT ![t] = [me EXCEPT !.pc = "rejected"]]
                /\ input' = messageText
                /\ attachment' = imageAttachment
                /\ UNCHANGED <<messages, loading, processingAgent, now>>
           ELSE /\ input' = <<>>
                /\ attachment' = NoImage
                /\ date = now \/ (override = "time" /\ ~IsImageCommand(messageText))
                /\ throws => (~local /\ ~apiKey)
                /\ now' = date
                /\ IF IsImageCommand(messageText)
                   THEN /\ messages' = P0_newMessages(me, t)
                        /\ loading' = TRUE
                        /\ processingAgent' = "Creative Agent"
                        /\ turns' = [turns EXCEPT ![t] = [me EXCEPT !.pc = "timer"]]
                   ELSE IF override = "time"
                   THEN /\ messages' = P0_Reply(me, t, TimeAnswer(date), "", "", <<>>)
                        /\ loading' = FALSE
                        /\ processingAgent' = ""
                        /\ turns' = [turns EXCEPT ![t] = [me EXCEPT !.pc = "answered"]]
                   ELSE IF override = "creator"
                   THEN /\ messages' = P0_Reply(me, t, CreatorAnswer, "", "", <<>>)
                        /\ loading' = FALSE
                        /\ processingAgent' = ""
                        /\ turns' = [turns EXCEPT ![t] = [me EXCEPT !.pc = "answered"]]
                   ELSE IF override = "organisation"
                   THEN /\ messages' = P0_Reply(me, t, OrganisationAnswer, "", "", <<>>)
                        /\ loading' = FALSE
                        /\ processingAgent' = ""
                        /\ turns' = [turns EXCEPT ![t] = [me EXCEPT !.pc = "answered"]]
                   ELSE IF throws
                   THEN /\ messages' = P0_Reply(me, t, P0_ConnectionError, "", "", <<>>)
                        /\ loading' = FALSE
                        /\ processingAgent' = ""
                        /\ turns' = [turns EXCEPT ![t] = [me EXCEPT !.pc = "failed"]]
                   ELSE /\ messages' = P0_newMessages(me, t)
                        /\ loading' = TRUE
                        /\ processingAgent' = "Zephyr"
                        /\ turns' = [turns EXCEPT ![t] =
                                        [me EXCEPT !.pc = "classify", !.classifierCalls = 1]]
    /\ UNCHANGED <<chatHistory, apiKey, localStorage, mounted>>

\* the callback of setTimeout(..., 1000) of the /image command
P0_imageTimer(t) ==
    /\ turns[t].pc = "timer"
    /\ LET me == turns[t]
       IN  messages' = P0_Reply(me, t, generateImageUrl(substring7(trim(me.messageText))),
                                "image", "Creative Agent", <<>>)
    /\ loading' = FALSE
    /\ processingAgent' = ""
    /\ turns' = [turns EXCEPT ![t].pc = "image"]
    /\ UNCHANGED <<input, attachment, chatHistory, apiKey, now, localStorage, mounted>>

\* the continuation of `await selectAgent(messageText)` up to `await generateContent`
P0_selectAgentDone(t) ==
    /\ turns[t].pc = "classify"
    /\ LET me == turns[t]
           agent == selectAgent(me.messageText)
       IN  /\ processingAgent' = IF agent # NoAgent THEN agent.name ELSE "Zephyr"
           /\ turns' = [turns EXCEPT ![t] =
                           [me EXCEPT !.pc = "request", !.selectedAgent = agent, !.requests = 1,
                                      !.request = P0_BuildRequest(me, agent)]]
    /\ UNCHANGED <<messages, input, attachment, chatHistory, apiKey, now, localStorage, mounted,
                   loading>>

\* the continuation of `await ai.models.generateContent(...)` when it resolves
P0_responseDone(t, response) ==
    /\ turns[t].pc = "request"
    /\ LET me == turns[t]
           agentName == IF me.selectedAgent # NoAgent THEN me.selectedAgent.name ELSE "Zephyr"
       IN  messages' = P0_Reply(me, t, response.text, "", agentName, P0_Sources(response.grounding))
    /\ loading' = FALSE
    /\ processingAgent' = ""
    /\ turns' = [turns EXCEPT ![t].pc = "ended"]
    /\ UNCHANGED <<input, attachment, chatHistory, apiKey, now, localStorage, mounted>>

\* ... when it rejects: catch and finally
P0_requestFailed(t) ==
    /\ turns[t].pc = "request"
    /\ messages' = P0_Reply(turns[t], t, P0_ConnectionError, "", "", <<>>)
    /\ loading' = FALSE
    /\ processingAgent' = ""
    /\ turns' = [turns EXCEPT ![t].pc = "failed"]
    /\ UNCHANGED <<input, attachment, chatHistory, apiKey, now, localStorage, mounted>>

\* lines 491-515 of part_000 are the history handlers of index.tsx, statement for
\* statement (setIsHistoryOpen only closes the side panel)
P0_startNewChat == startNewChat
P0_loadChat(index) == loadChat(index)
P0_deleteChat(index) == deleteChat(index)

\* a timer that is due fires, a promise that is pending settles
P0_Completes ==
    \E t \in Turn :
        \/ P0_imageTimer(t)
        \/ P0_selectAgentDone(t)
        \/ \E response \in P0_Responses : P0_responseDone(t, response)
        \/ P0_requestFailed(t)

NextPart000 ==
    \/ \E t \in Turn, c \in P0_Calls, date \in ClockReads, throws \in BOOLEAN :
          P0_sendMessage(t, c.messageText, c.imageAttachment, date, throws)
    \/ \E t \in Turn : P0_imageTimer(t)
    \/ \E t \in Turn : P0_selectAgentDone(t)
    \/ \E t \in Turn, response \in P0_Responses : P0_responseDone(t, response)
    \/ \E t \in Turn : P0_requestFailed(t)
    \/ P0_startNewChat
    \/ \E index \in 0..(Len(chatHistory) - 1) : P0_loadChat(index)
    \/ \E index \in 0..(Len(chatHistory) - 1) : P0_deleteChat(index)

SpecPart000 == Init /\ [][NextPart000]_vars /\ WF_vars(P0_Completes)

\* ================================================================== claims
\* vocabulary of the claims
SomeLoading(msgs) == \E i \in 1..Len(msgs) : msgs[i].isLoading = TRUE
Blank(text) == \A i \in 1..Len(text) : text[i] = SP
Called(t) == turns[t].pc = "idle" /\ turns'[t].pc # "idle"

\* the MODEL message appended by turn t is in the current transcript
PlaceholderIn(t) == \E i \in 1..Len(messages) : messages[i].turn = t /\ messages[i].role = MODEL

\* turn t's placeholder is created and its request has neither ended nor failed
NonTerminal(t) == PlaceholderIn(t) /\ turns[t].pc \in {"geo", "stream"}

\* a sendMessage call that changes nothing: no message, no field, no classifier, no request
NoOpCall(t) ==
    /\ messages' = messages
    /\ chatHistory' = chatHistory
    /\ input' = turns'[t].messageText
    /\ attachment' = turns'[t].imageAttachment
    /\ turns'[t].pc = "rejected"
    /\ turns'[t].classifierCalls = 0
    /\ turns'[t].geoReads = 0
    /\ turns'[t].requests = 0
    /\ \A u \in Turn \ {t} : turns'[u] = turns[u]

\* C1 (as stated): at any time at most one MODEL placeholder of the transcript is
\* non-terminal, i.e. loading or still receiving the chunks of an open stream.
C1_AtMostOneNonTerminal == Cardinality({t \in Turn : NonTerminal(t)}) <= 1

\* C2: a sendMessage call made while a message of the transcript is loading is a
\* no-op: transcript, form fields and history unchanged, no classifier call, no request.
C2_BusyCallIsNoOp ==
    [][\A t \in Turn : (Called(t) /\ SomeLoading(messages)) => NoOpCall(t)]_vars

C2_Witness ==
    \E t \in Turn :
        /\ turns[t].pc = "rejected"
        /\ ~Blank(turns[t].messageText)
        /\ SomeLoading(turns[t].messages)
        /\ messages = turns[t].messages

\* C3: a sendMessage call with an empty or whitespace-only text and no attachment is
\* a no-op: transcript, form fields and history unchanged, no classifier call, no request.
C3_EmptyCallIsNoOp ==
    [][\A t \in Turn :
          (Called(t) /\ Blank(turns'[t].messageText) /\ turns'[t].imageAttachment = NoImage)
              => NoOpCall(t)]_vars

C3_Witness ==
    \E t \in Turn :
        /\ turns[t].pc = "rejected"
        /\ turns[t].messageText = <<SP>>
        /\ turns[t].imageAttachment = NoImage
        /\ Len(turns[t].messages) > 0
        /\ ~SomeLoading(turns[t].messages)
        /\ messages = turns[t].messages

\* the positions at which a turn has returned
Terminal == {"rejected", "image", "answered", "nokey", "ended", "failed"}

\* the MODEL messages of the transcript appended by turn t
PlaceholdersOf(msgs, t) == {i \in 1..Len(msgs) : msgs[i].turn = t /\ msgs[i].role = MODEL}

NoDuplicateUri(sources) ==
    \A i, j \in 1..Len(sources) : sources[i].uri = sources[j].uri => i = j

\* C4 (as stated): after every merge and at the end of the turn, no message's sources
\* list holds two entries with the same URI.
C4_SourcesHaveDistinctUris ==
    \A i \in 1..Len(messages) : NoDuplicateUri(messages[i].sources)

C6_TerminalIsFrozen ==
    [][\A i \in 1..Len(messages) :
          /\ (messages[i].role = MODEL /\ turns[messages[i].turn].pc \in Terminal) =>
                /\ messages'[i].text = messages[i].text
                /\ messages'[i].sources = messages[i].sources
                /\ messages'[i].isLoading = messages[i].isLoading
          /\ (messages[i].isLoading = FALSE) => (messages'[i].isLoading = FALSE)]_vars

\* the trimmed text is the prefix "/image " followed by a non-empty prompt
HasImagePrefix(text) ==
    /\ Len(trim(text)) >= 3
    /\ trim(text)[1] = "/image"
    /\ trim(text)[2] = SP

PromptOf(text) == SubSeq(trim(text), 3, Len(trim(text)))

\* C7: an accepted call whose trimmed text is "/image " plus a prompt appends exactly
\* a USER message and a finished MODEL message of type image, tagged Creative Agent,
\* whose text is the image URL of the prompt; the turn returns at once and never
\* calls the classifier, reads the position or issues a request.
C7_ImageCommandIsLocal ==
    /\ [][\A t \in Turn :
             (Called(t) /\ turns'[t].pc # "rejected" /\ HasImagePrefix(turns'[t].messageText)) =>
                 /\ turns'[t].pc = "image"
                 /\ Len(messages') = Len(messages) + 2
                 /\ SubSeq(messages', 1, Len(messages)) = messages
                 /\ LET u == messages'[Len(messages) + 1]
                        m == messages'[Len(messages) + 2]
                    IN  /\ u.role = USER
                        /\ u.text = trim(turns'[t].messageText)
                        /\ m.role = MODEL
                        /\ m.type = "image"
                        /\ m.isLoading = FALSE
                        /\ m.agentName = "Creative Agent"
                        /\ m.text = generateImageUrl(PromptOf(turns'[t].messageText))]_vars
    /\ [](\A t \in Turn :
             turns[t].pc = "image" =>
                 /\ turns[t].classifierCalls = 0
                 /\ turns[t].geoReads = 0
                 /\ turns[t].requests = 0)

C7_Witness ==
    \E t \in Turn :
        /\ turns[t].pc = "image"
        /\ HasImagePrefix(turns[t].messageText)
        /\ Len(turns[t].messages) > 0
        /\ PlaceholdersOf(messages, t) # {}

\* the rules of the local overrides, on the lower-cased trimmed text
TimeRule(text) == TestWords({"time", "date"}, toLowerCase(trim(text)))
CreatorRule(text) ==
    /\ TestWords({"developed you", "your developer", "your creator", "created you", "made you"},
                 toLowerCase(trim(text)))
    /\ ~includes(toLowerCase(trim(text)), "quantum coders")

IsTimeAnswer(text) == Len(text) = 2 /\ text[1] = "The current date and time is: "
IsCreatorAnswer(text) == text = <<"I was created by **Mohammad Rayyan Ali**.">>

Classified(t) == turns[t].pc = "classify" /\ turns'[t].pc # "classify"

\* C8: the overrides apply only without an attachment and in fixed order: a text
\* matching the time rule gets the time answer even if it matches the creator rule
\* too, a text matching only the creator rule gets the attribution, and with an
\* attachment the placeholder gets neither answer.
C8_OverrideOrder ==
    [][\A t \in Turn :
          Classified(t) =>
              LET text == turns[t].messageText
                  noImage == turns[t].imageAttachment = NoImage
              IN  /\ PlaceholdersOf(messages', t) # {}
                  /\ \A i \in PlaceholdersOf(messages', t) :
                        /\ IsTimeAnswer(messages'[i].text) <=> (noImage /\ TimeRule(text))
                        /\ IsCreatorAnswer(messages'[i].text)
                              <=> (noImage /\ ~TimeRule(text) /\ CreatorRule(text))]_vars

C8_Witness ==
    \E t \in Turn :
        /\ turns[t].pc = "answered"
        /\ turns[t].imageAttachment = NoImage
        /\ TimeRule(turns[t].messageText)
        /\ CreatorRule(turns[t].messageText)
        /\ \E i \in PlaceholdersOf(messages, t) : IsTimeAnswer(messages[i].text)

\* C9: when a time or attribution override applies, the turn returns with its
\* placeholder holding the local answer and not loading, and the turn never reads
\* the position nor issues a request.
C9_OverrideEndsTurnLocally ==
    /\ [][\A t \in Turn :
             (Classified(t) /\ turns[t].imageAttachment = NoImage
                 /\ (TimeRule(turns[t].messageText) \/ CreatorRule(turns[t].messageText))) =>
                 /\ turns'[t].pc = "answered"
                 /\ PlaceholdersOf(messages', t) # {}
                 /\ \A i \in PlaceholdersOf(messages', t) :
                       /\ messages'[i].isLoading = FALSE
                       /\ IsTimeAnswer(messages'[i].text) \/ IsCreatorAnswer(messages'[i].text)]_vars
    /\ [](\A t \in Turn :
             turns[t].pc = "answered" =>
                 /\ turns[t].geoReads = 0
                 /\ turns[t].requests = 0
                 /\ turns[t].request = NoRequest)

C9_Witness ==
    \E t \in Turn :
        /\ turns[t].pc = "answered"
        /\ ~TimeRule(turns[t].messageText)
        /\ \E i \in PlaceholdersOf(messages, t) :
              IsCreatorAnswer(messages[i].text) /\ messages[i].isLoading = FALSE

\* the text matches the location pattern
MapRule(text) ==
    TestWords({"near", "nearby", "location", "place", "restaurant", "cafe", "hotel", "park",
               "address", "direction", "where is", "at"}, toLowerCase(trim(text)))

\* C10: when the position read of a maps-flagged turn fails (denied, timeout,
\* unsupported), the streaming request is issued all the same, with the maps tool
\* and without toolConfig, and the transcript is not touched: no error is written.
C10_GeoFailureFallsBack ==
    [][\A t \in Turn :
          (turns[t].pc = "geo" /\ turns'[t].pc # "geo" /\ turns'[t].position # "ok") =>
              /\ MapRule(turns[t].messageText)
              /\ turns'[t].pc = "stream"
              /\ turns'[t].requests = 1
              /\ turns'[t].request.issued
              /\ turns'[t].request.tools = {"googleSearch", "googleMaps"}
              /\ turns'[t].request.toolConfig.set = FALSE
              /\ messages' = messages]_vars

C10_Witness ==
    \E t \in Turn :
        /\ turns[t].position \in {"denied", "timeout", "unsupported"}
        /\ turns[t].pc = "ended"
        /\ turns[t].fullText # <<>>
        /\ \E i \in PlaceholdersOf(messages, t) : messages[i].text = turns[t].fullText

\* the cases in which a call must not reach the completion service
StaysLocal(t) ==
    \/ turns[t].pc = "rejected"
    \/ HasImagePrefix(turns[t].messageText)
    \/ /\ turns[t].imageAttachment = NoImage
       /\ TimeRule(turns[t].messageText) \/ CreatorRule(turns[t].messageText)

\* C11: every sendMessage call issues at most one completion request, and none when
\* the call is rejected, is an /image command or is answered by a local override.
C11_AtMostOneRequest ==
    \A t \in Turn :
        /\ turns[t].requests <= 1
        /\ (turns[t].pc # "idle" /\ StaysLocal(t)) =>
              (turns[t].requests = 0 /\ turns[t].request = NoRequest)
        /\ turns[t].request.issued <=> turns[t].requests = 1

C11_Witness ==
    \E t, u \in Turn :
        /\ turns[t].pc = "ended"
        /\ MapRule(turns[t].messageText)
        /\ turns[t].requests = 1
        /\ turns[u].pc = "image"
        /\ turns[u].requests = 0

\* turn t's request or stream fails in this step
Fails(t) == turns[t].pc = "stream" /\ turns'[t].pc = "failed"

\* turn t is the first call after turn t - 1 has failed
CalledAfterFailure(t) == Called(t) /\ t > 1 /\ turns[t - 1].pc = "failed"

\* C12 (as stated): a failed turn made exactly one request; when it fails no message
\* of the transcript is loading; the next non-empty call is accepted and appends a
\* user message and a placeholder of its own.
C12_FailedTurnIsResubmittable ==
    /\ [](\A t \in Turn : turns[t].pc = "failed" => turns[t].requests = 1)
    /\ [][\A t \in Turn : Fails(t) => ~SomeLoading(messages')]_vars
    /\ [][\A t \in Turn :
             (CalledAfterFailure(t) /\ ~Blank(turns'[t].messageText)) =>
                 turns'[t].pc \in {"classify", "image"}]_vars
    /\ [][\A t \in Turn :
             (t > 1 /\ turns[t - 1].pc = "failed"
                 /\ turns[t].pc \in {"idle", "classify"} /\ turns'[t].pc \notin {"idle", "classify", "rejected"}) =>
                 /\ Len(messages') = Len(messages) + 2
                 /\ messages'[Len(messages) + 1].role = USER
                 /\ messages'[Len(messages) + 1].turn = t
                 /\ messages'[Len(messages) + 2].role = MODEL
                 /\ messages'[Len(messages) + 2].turn = t]_vars

\* the tag of the persona the classifier returns for the text, or the default
PersonaTag(text) == IF selectAgent(text) # NoAgent THEN selectAgent(text).name ELSE "Zephyr"

\* m is e after at most a later update of the same handler run that writes text and
\* loading flag of the messages with the placeholder's id
SameOrFilled(m, e, id) ==
    \/ m = e
    \/ /\ e.id = id
       /\ m.isLoading = FALSE
       /\ m = [e EXCEPT !.text = m.text, !.isLoading = FALSE]

\* C13: an accepted call that is not an /image command appends in one step the USER
\* message (trimmed text, preview URL of the image if any) followed by a MODEL
\* placeholder with empty text, loading and tagged with the classifier's persona or
\* "Zephyr"; the earlier messages are kept, unchanged and in order.  The placeholder
\* is still empty and loading after the step unless the same run answers it locally.
C13_AppendsUserAndPlaceholder ==
    [][\A t \in Turn :
          Classified(t) =>
              LET n == Len(messages)
                  text == turns[t].messageText
                  user == [id |-> messages'[n + 1].id, role |-> USER, text |-> trim(text),
                           image |-> turns[t].imageAttachment.url, type |-> "",
                           agentName |-> "", isLoading |-> FALSE, sources |-> <<>>, turn |-> t]
                  model == [id |-> messages'[n + 2].id, role |-> MODEL, text |-> <<>>,
                            image |-> "", type |-> "", agentName |-> PersonaTag(text),
                            isLoading |-> TRUE, sources |-> <<>>, turn |-> t]
                  expected == messages \o <<user, model>>
              IN  /\ ~HasImagePrefix(text)
                  /\ Len(messages') = n + 2
                  /\ messages'[n + 1] = user
                  /\ \A i \in 1..(n + 2) : SameOrFilled(messages'[i], expected[i], model.id)
                  /\ turns'[t].pc \in {"geo", "stream"} => messages' = expected]_vars

C13_Witness ==
    \E t \in Turn :
        /\ turns[t].pc = "stream"
        /\ turns[t].nChunks = 0
        /\ Len(turns[t].messages) > 0
        /\ messages[Len(messages)].agentName = "Coder Agent"
        /\ messages[Len(messages)].isLoading
        /\ messages[Len(messages)].turn = t
        /\ messages[Len(messages) - 1].text = <<"code", SP, "updates">>

\* turn t issues its completion request in this step
Issues(t) == turns[t].requests = 0 /\ turns'[t].requests = 1

\* the messages of the transcript that are not turn t's own and are not loading
PriorNonLoading(t) == SelectSeq(messages, LAMBDA m : m.turn # t /\ ~m.isLoading)

RoleAndText(m) == [role |-> m.role, parts |-> <<TextPart(m.text)>>]

CurrentEntry(t) ==
    [role |-> USER,
     parts |-> (IF Blank(turns[t].messageText) THEN <<>>
                ELSE <<TextPart(trim(turns[t].messageText))>>)
               \o (IF turns[t].imageAttachment = NoImage THEN <<>>
                   ELSE <<InlinePart(turns[t].imageAttachment)>>)]

\* C14 (as stated): the contents of the request are exactly the non-loading messages
\* of the transcript that precede the turn, in order, each as role and text, followed
\* by the current turn; no loading message and not the turn's placeholder.
C14_RequestCarriesPriorMessages ==
    [][\A t \in Turn :
          Issues(t) =>
              LET prior == PriorNonLoading(t)
              IN  turns'[t].request.contents
                     = [i \in 1..Len(prior) |-> RoleAndText(prior[i])] \o <<CurrentEntry(t)>>]_vars

\* C15: every request enables the web-search tool; the maps tool is enabled exactly
\* when the text matches the location pattern; the location bias is attached only
\* to the request of a maps-flagged text whose position read succeeded.
C15_ToolSelection ==
    \A t \in Turn :
        turns[t].request.issued =>
            /\ "googleSearch" \in turns[t].request.tools
            /\ turns[t].request.tools \subseteq {"googleSearch", "googleMaps"}
            /\ "googleMaps" \in turns[t].request.tools <=> MapRule(turns[t].messageText)
            /\ turns[t].request.toolConfig.set =>
                  /\ MapRule(turns[t].messageText)
                  /\ turns[t].position = "ok"
                  /\ turns[t].request.toolConfig.latitude = Position.latitude
                  /\ turns[t].request.toolConfig.longitude = Position.longitude

C15_Witness ==
    \E t \in Turn :
        /\ turns[t].request.issued
        /\ turns[t].request.toolConfig.set
        /\ turns[t].request.tools = {"googleSearch", "googleMaps"}
        /\ turns[t].messageText = <<"x", SP, "near">>
        /\ turns[t].imageAttachment # NoImage

\* turn t's loop takes a chunk in this step
TakesChunk(t) == turns'[t].nChunks = turns[t].nChunks + 1

RECURSIVE Concatenation(_)
Concatenation(fragments) ==
    IF fragments = <<>> THEN <<>> ELSE Head(fragments) \o Concatenation(Tail(fragments))

IsPrefix(a, b) == Len(a) <= Len(b) /\ SubSeq(b, 1, Len(a)) = a

\* C17: no source of a message lacks its URI or its title; a merge keeps the sources
\* accumulated earlier in the turn at their positions and adds entries only behind
\* them, so the list of the turn's placeholder only grows while the turn streams.
C17_SourcesOnlyGrow ==
    /\ [](\A i \in 1..Len(messages) :
             \A j \in 1..Len(messages[i].sources) :
                 messages[i].sources[j].uri # "" /\ messages[i].sources[j].title # "")
    /\ [][\A t \in Turn :
             TakesChunk(t) =>
                 \A i \in PlaceholdersOf(messages, t) :
                     /\ i <= Len(messages')
                     /\ IsPrefix(messages[i].sources, messages'[i].sources)]_vars

C17_Witness ==
    \E t \in Turn :
        /\ turns[t].nChunks = 2
        /\ \E i \in PlaceholdersOf(messages, t) :
              /\ Len(messages[i].sources) = 3
              /\ messages[i].sources[1].uri = "u2"
              /\ messages[i].sources[3].uri = "u6"

\* the text has creator/developer phrasing
CreatorPhrase(text) ==
    TestWords({"developed you", "your developer", "your creator", "created you", "made you"},
              toLowerCase(trim(text)))

NamesOrganisation(text) == \E i \in 1..Len(text) : LowerTok(text[i]) = "quantum coders"

\* C18: a text with creator phrasing that names the organisation and does not match
\* the time rule is not answered locally: without attachment the attribution is not
\* written and the turn goes on to the request path (key check, position read, request).
C18_OrganisationIsNotAnsweredLocally ==
    /\ [][\A t \in Turn :
             (Classified(t) /\ turns[t].imageAttachment = NoImage
                 /\ CreatorPhrase(turns[t].messageText) /\ NamesOrganisation(turns[t].messageText)
                 /\ ~TimeRule(turns[t].messageText)) =>
                 /\ turns'[t].pc = (IF ~apiKey THEN "nokey"
                                    ELSE IF MapRule(turns[t].messageText) THEN "geo" ELSE "stream")
                 /\ \A i \in PlaceholdersOf(messages', t) :
                       /\ ~IsCreatorAnswer(messages'[i].text)
                       /\ ~IsTimeAnswer(messages'[i].text)
                       /\ apiKey => (messages'[i].isLoading /\ messages'[i].text = <<>>)]_vars
    /\ [](\A t \in Turn :
             (turns[t].pc \in {"stream", "ended", "failed"} /\ turns[t].imageAttachment = NoImage
                 /\ CreatorPhrase(turns[t].messageText) /\ NamesOrganisation(turns[t].messageText)) =>
                 (turns[t].requests = 1 /\ turns[t].request.issued))

C18_Witness ==
    \E t \in Turn :
        /\ turns[t].pc = "stream"
        /\ turns[t].messageText = <<"made you", SP, "quantum coders">>
        /\ turns[t].imageAttachment = NoImage
        /\ turns[t].requests = 1
        /\ \E i \in PlaceholdersOf(messages, t) : messages[i].isLoading

\* C19: startNewChat with a non-empty current transcript puts that transcript at
\* index 0 of the history, keeps the earlier entries in their order behind it and
\* empties the current transcript; with an empty transcript the history is unchanged.
C19_NewChatArchivesFirst ==
    [][startNewChat =>
          /\ messages' = <<>>
          /\ IF messages # <<>>
             THEN /\ Len(chatHistory') = Len(chatHistory) + 1
                  /\ chatHistory'[1] = messages
                  /\ \A i \in 1..Len(chatHistory) : chatHistory'[i + 1] = chatHistory[i]
             ELSE chatHistory' = chatHistory]_vars

C19_Witness ==
    /\ Len(chatHistory) = 3
    /\ messages = <<>>
    /\ chatHistory[3] = OldChat
    /\ chatHistory[1][1].turn = 2
    /\ chatHistory[2][1].turn = 1

\* the list held by a stored item; nothing stored counts as the empty list
PersistedList(item) == IF item.present THEN item.json ELSE <<>>

\* C20 (as stated): once the startup effects have run the history in memory is the
\* list that was persisted before startup, and after every later change of the
\* history the persisted list is the history in memory.
C20_HistoryIsPersisted ==
    /\ [][(~mounted /\ mounted') => chatHistory' = PersistedList(localStorage)]_vars
    /\ [](mounted => (localStorage.present /\ localStorage.json = chatHistory))

\* C21 (as stated): once the stream of a turn has ended or failed, with or without
\* text fragments, the turn's placeholder is not loading, so the finished turn does
\* not keep the submission guard busy.
C21_FinishedTurnIsNotLoading ==
    \A t \in Turn :
        turns[t].pc \in {"ended", "failed"} =>
            /\ \A i \in PlaceholdersOf(messages, t) : messages[i].isLoading = FALSE
            /\ ~SomeLoading(messages)

\* the number of entries of the history equal to the transcript chat
Count(history, chat) == Cardinality({i \in 1..Len(history) : history[i] = chat})

\* the history without its entry at the 0-based position index
Without(history, index) ==
    SubSeq(history, 1, index) \o SubSeq(history, index + 2, Len(history))

\* C22 (as stated): loadChat(i) with a non-empty current transcript makes the former
\* entry i the current transcript, puts the former current transcript at index 0 of
\* the history, and keeps every other entry exactly once, without entry i.
C22_LoadChatKeepsEveryChat ==
    [][\A index \in 0..(Len(chatHistory) - 1) :
          (loadChat(index) /\ messages # <<>>) =>
              /\ messages' = chatHistory[index + 1]
              /\ Len(chatHistory') = Len(chatHistory)
              /\ chatHistory'[1] = messages
              /\ \A j \in 1..Len(chatHistory') :
                    Count(chatHistory', chatHistory'[j])
                       = Count(<<messages>> \o Without(chatHistory, index), chatHistory'[j])]_vars

\* C23 (as stated): no transcript stored in the chat history holds a loading message,
\* however startNewChat and loadChat interleave with a turn in flight.
C23_ArchivedChatsAreNotLoading ==
    \A j \in 1..Len(chatHistory) : ~SomeLoading(chatHistory[j])

\* turn t has created its placeholder, has not returned, and the placeholder is not
\* in the current transcript: the user has switched to another chat
Abandoned(t) == turns[t].pc \in {"geo", "stream"} /\ PlaceholdersOf(messages, t) = {}

\* C24 (as stated): a write of a turn in flight that the user has left by starting or
\* loading another chat (stream chunk, error) changes no message of the transcript
\* that is now current.
C24_AbandonedTurnWritesNothing ==
    [][\A t \in Turn : (Abandoned(t) /\ turns'[t] # turns[t]) => messages' = messages]_vars

\* C25: in part_000, when the user starts or loads another chat while a turn waits
\* for its reply (the request that is open, or the /image reply that is delayed by
\* one second), the reply written on completion does not replace or alter the
\* transcript that is current by then.
P0_InFlight(t) == turns[t].pc \in {"timer", "classify", "request"}
P0_Switched(t) == P0_InFlight(t) /\ messages # P0_newMessages(turns[t], t)
C25_LateReplyLeavesNewTranscript ==
    [][\A t \in Turn :
          (P0_Switched(t) /\ turns'[t].pc \notin {"timer", "classify", "request"})
              => messages' = messages]_vars

\* C26: with no API key, a turn that no local rule answers ends where the key is
\* tested: its placeholder is not loading and carries a non-empty error text, and the
\* turn has issued no completion request and has read no position, then or later.
LeavesClassifier(t) == turns[t].pc = "classify" /\ turns'[t].pc # "classify"
C26_NoKeyEndsWithError ==
    [][\A t \in Turn :
          /\ (/\ LeavesClassifier(t)
              /\ ~apiKey
              /\ LocalOverride(turns[t].messageText, turns[t].imageAttachment) = "")
                => /\ turns'[t].pc = "nokey"
                   /\ PlaceholdersOf(messages', t) # {}
                   /\ \A i \in PlaceholdersOf(messages', t) :
                         /\ messages'[i].isLoading = FALSE
                         /\ messages'[i].text # <<>>
                         /\ messages'[i].text = KeyMissing
                   /\ turns'[t].requests = 0
                   /\ turns'[t].geoReads = 0
                   /\ ~turns'[t].request.issued
          /\ turns[t].pc = "nokey" => turns'[t] = turns[t]]_vars

C26_Witness ==
    \E t \in Turn :
        /\ turns[t].pc = "nokey"
        /\ IsMapQuery(toLowerCase(trim(turns[t].messageText)))
        /\ turns[t].geoReads = 0
        /\ \E i \in PlaceholdersOf(messages, t) :
              messages[i].text = KeyMissing /\ ~messages[i].isLoading

\* C27: the transcript is a sequence of adjacent pairs: every USER message is
\* followed at once by the MODEL message of the same turn, and every MODEL message
\* stands right behind the USER message of its turn, also when turns overlap.
C27_AdjacentPairs ==
    /\ Len(messages) % 2 = 0
    /\ \A i \in 1..Len(messages) :
          /\ messages[i].role = USER =>
                /\ i < Len(messages)
                /\ messages[i + 1].role = MODEL
                /\ messages[i + 1].turn = messages[i].turn
          /\ messages[i].role = MODEL =>
                /\ i > 1
                /\ messages[i - 1].role = USER
                /\ messages[i - 1].turn = messages[i].turn

C27_Witness ==
    /\ Len(messages) = 4
    /\ messages[1].turn # messages[3].turn
    /\ messages[2].isLoading
    /\ messages[4].isLoading

\* C28: the messages of the transcript have pairwise distinct ids, so that an update
\* addressed to one placeholder id changes exactly that message.
C28_IdsAreDistinct ==
    \A i, j \in 1..Len(messages) : i # j => messages[i].id # messages[j].id

\* C29: in part_000 the loading flag is false again after every accepted submission,
\* whichever way the turn ends (/image reply, time or date, attribution, organisation,
\* a response, a failed request): the flag is true exactly while a turn is open, the
\* step that ends a turn resets it, and a turn that is open does end.  While the flag
\* is true a submission is rejected and changes nothing.
P0_Terminal == {"image", "answered", "ended", "failed"}
C29_LoadingIsReset ==
    /\ [](loading <=> \E t \in Turn : P0_InFlight(t))
    /\ [][\A t \in Turn :
             /\ (turns[t].pc \notin P0_Terminal /\ turns'[t].pc \in P0_Terminal)
                   => loading' = FALSE
             /\ (loading /\ turns[t].pc = "idle" /\ turns'[t].pc # "idle")
                   => /\ turns'[t].pc = "rejected"
                      /\ input' = turns'[t].messageText
                      /\ attachment' = turns'[t].imageAttachment
                      /\ \A u \in Turn \ {t} : turns'[u] = turns[u]
                      /\ UNCHANGED <<messages, chatHistory, loading, processingAgent,
                                     localStorage, now>>]_vars
    /\ (loading ~> ~loading)

C29_Witness ==
    \E t, u \in Turn :
        /\ turns[t].pc = "image"
        /\ turns[u].pc = "rejected"
        /\ ~Blank(turns[u].messageText)
        /\ ~loading

====
